---------------------------- MODULE Spec2Model ----------------------------
(***************************************************************************)
(* Peak search-and-characterisation engine of the impedance peak finder.   *)
(*                                                                         *)
(*   single buffer : src/peakfinder/mes_peakfinder.h  (processPeak)        *)
(*   dual buffer   : src/README.md, C listing         (processOverlapPeak) *)
(*                                                                         *)
(* A sample buffer is a sequence of phaseAngle values; impedance is never  *)
(* read by the engine.  C index i of buffer s is s[i + 1].  A float is a   *)
(* whole number of 1/Unit: every value the engine computes is a sum or a   *)
(* difference of samples, except prominence / 2.0f, which is compared in   *)
(* doubled form (AboveHalf).                                               *)
(***************************************************************************)
EXTENDS Integers, Sequences, FiniteSets

(***************************************************************************)
(* Fixed configuration                                                     *)
(***************************************************************************)
\* phaseAngle resolution: 1.0f is Unit model units.  With 2^20 every float
\* between 8.0 and 64.0, so every sample of the reference curve, is a whole
\* number of units
Unit == 1048576

\* #define NOISE_TOLERANCE 0.9f
NOISE_TOLERANCE == (9 * Unit) \div 10

\* #define PEAK_THRESHOLD 30
PEAK_THRESHOLD == 30

\* prominence > 18.0f
PROMINENCE_FLOOR == 18 * Unit

\* fwhm > 15
FWHM_FLOOR == 15

\* int maxAttempts = 3;  /  #define MAX_ATTEMPTS 3
MAX_ATTEMPTS == 3

\* int skippedIndices[3]; if (skippedCount < 3)  /  #define MAX_IGNORED 3
MAX_IGNORED == 3

\* return -1;  (findPeakRec / findPeakrec: no peak found)
NoPeak == (-1) * Unit

\* return -1.0;  (calculateProminenceForCombinedArrays: invalid arrayIndex)
InvalidProminence == (-1) * Unit

\* uint16_t *peakIndex
U16(n) == n % 65536

(***************************************************************************)
(* Buffer access                                                           *)
(***************************************************************************)
\* s[i] for an index the code keeps inside the buffer
At(s, i) == s[i + 1]

InBounds(s, i) == i >= 0 /\ i < Len(s)

\* s[i] where the code may leave the buffer: outside it the read is
\* undefined behaviour and yields junk, a value the program does not fix
Rd(s, i, junk) == IF InBounds(s, i) THEN s[i + 1] ELSE junk

\* (l + r) / 2 and (r - l) / 2 of C: truncation toward zero
CDiv2(x) == IF x >= 0 THEN x \div 2 ELSE -((-x) \div 2)

\* fminf(leftMin, rightMin)
Min2(x, y) == IF x < y THEN x ELSE y

\* fabsf(rightIndex - leftIndex)
Abs(x) == IF x < 0 THEN -x ELSE x

\* the value of a statement sequence: S holds the one value computed so far.
\* The loops over a whole buffer below run their index range in two halves,
\* first half then second half in loop order, so that a loop over the
\* 301-sample reference curve is evaluated about ten levels deep.
Only(S) == CHOOSE x \in S : TRUE

(***************************************************************************)
(* Exclusion set                                                           *)
(***************************************************************************)
\* ignoreIndices[0 .. numIgnoreIndices-1] is the sequence ign
shouldBeIgnored(index, ign) == \E j \in 1..Len(ign) : index = ign[j]

\* variant of the append: the set is full at two indices
AppendIgnored_CapTwo(ign, idx) == IF Len(ign) < 2 THEN Append(ign, idx) ELSE ign

\* if (count < 3) indices[count++] = idx;
AppendIgnored(ign, idx) == IF Len(ign) < MAX_IGNORED THEN Append(ign, idx) ELSE ign

(***************************************************************************)
(* Single buffer: bounded maximum scan and locator                         *)
(***************************************************************************)
RECURSIVE maxrowFrom(_, _, _, _, _)
\* for (i = lo; i <= hi; i++) { if (ignored) continue;
\*     if (*max_val < a[i]) { *max_val = a[i]; *max_index = i; } }
maxrowFrom(a, lo, hi, m, ign) ==
    IF lo > hi THEN m
    ELSE IF lo = hi
         THEN IF shouldBeIgnored(lo, ign) THEN m
              ELSE IF m.max_val < At(a, lo) THEN [max_val |-> At(a, lo), max_index |-> lo]
              ELSE m
    ELSE Only({Only({maxrowFrom(a, mid + 1, hi, first, ign) :
                         first \in {maxrowFrom(a, lo, mid, m, ign)}}) :
                   mid \in {(lo + hi) \div 2}})

\* variant of the scan: it starts at the second sample
maxrow_SkipFirst(a, size, ign) ==
    maxrowFrom(a, 1, size - 1, [max_val |-> 0, max_index |-> 0], ign)

\* float max_val = 0.0f; int max_index = 0; maxrow(a, size, mid, ...)
maxrow(a, size, ign) ==
    maxrowFrom(a, 0, size - 1, [max_val |-> 0, max_index |-> 0], ign)

\* one more recursion level on the way back
Deeper(res) == [res EXCEPT !.calls = @ + 1]

\* pk is what *peakIndex holds on entry; it is written only on acceptance
RECURSIVE findPeakRec(_, _, _, _, _, _)
findPeakRec(a, size, l, r, pk, ign) ==
    IF l > r THEN [value |-> NoPeak, peakIndex |-> pk, calls |-> 1]
    ELSE LET mid == CDiv2(l + r)
             m   == maxrow(a, size, ign)
             acc == [value |-> m.max_val, peakIndex |-> U16(m.max_index), calls |-> 1]
         IN  IF mid = 0 \/ mid = size - 1 THEN acc
             ELSE IF m.max_val < At(a, mid - 1)
                  THEN Deeper(findPeakRec(a, size, l, mid - 1, pk, ign))
             ELSE IF m.max_val < At(a, mid + 1)
                  THEN Deeper(findPeakRec(a, size, mid + 1, r, pk, ign))
             ELSE acc

(***************************************************************************)
(* Single buffer: prominence                                               *)
(***************************************************************************)
RECURSIVE HigherDown(_, _, _, _, _)
\* for (i = hi; i >= lo; i--) if (a[i] > peak_val) { leftBoundary = i; break; }
\* leftBoundary as the loop leaves it, none when the loop found nothing
HigherDown(a, lo, hi, peak_val, none) ==
    IF lo > hi THEN none
    ELSE IF lo = hi THEN (IF At(a, lo) > peak_val THEN lo ELSE none)
    ELSE Only({Only({IF first # none THEN first
                     ELSE HigherDown(a, lo, mid, peak_val, none) :
                         first \in {HigherDown(a, mid + 1, hi, peak_val, none)}}) :
                   mid \in {(lo + hi) \div 2}})

\* int leftBoundary = 0; for (i = peakIndex - 1; i >= 0; i--) ...
ScanLeftHigher(a, i, peak_val) ==
    Only({IF found = -1 THEN 0 ELSE found : found \in {HigherDown(a, 0, i, peak_val, -1)}})

RECURSIVE HigherUp(_, _, _, _, _)
\* for (i = lo; i <= hi; i++) if (a[i] > peak_val) { rightBoundary = i; break; }
HigherUp(a, lo, hi, peak_val, none) ==
    IF lo > hi THEN none
    ELSE IF lo = hi THEN (IF At(a, lo) > peak_val THEN lo ELSE none)
    ELSE Only({Only({IF first # none THEN first
                     ELSE HigherUp(a, mid + 1, hi, peak_val, none) :
                         first \in {HigherUp(a, lo, mid, peak_val, none)}}) :
                   mid \in {(lo + hi) \div 2}})

\* int rightBoundary = size - 1; for (i = peakIndex + 1; i < size; i++) ...
ScanRightHigher(a, size, i, peak_val) ==
    Only({IF found = -1 THEN size - 1 ELSE found :
              found \in {HigherUp(a, i, size - 1, peak_val, -1)}})

RECURSIVE MinFrom(_, _, _, _)
\* for (i = leftBoundary; i <= rightBoundary; i++) if (a[i] < minValue) minValue = a[i];
MinFrom(a, i, rightBoundary, minValue) ==
    IF i > rightBoundary THEN minValue
    ELSE IF i = rightBoundary THEN (IF At(a, i) < minValue THEN At(a, i) ELSE minValue)
    ELSE Only({Only({MinFrom(a, mid + 1, rightBoundary, first) :
                         first \in {MinFrom(a, i, mid, minValue)}}) :
                   mid \in {(i + rightBoundary) \div 2}})

\* size is the parameter of findProminence, not the length of a
findProminence(a, size, peakIndex, junk) ==
    LET peak_val      == At(a, peakIndex)
        leftBoundary  == ScanLeftHigher(a, peakIndex - 1, peak_val)
        rightBoundary == ScanRightHigher(a, size, peakIndex + 1, peak_val)
        minValue      == MinFrom(a, leftBoundary, rightBoundary,
                                 Rd(a, rightBoundary, junk))
    IN  peak_val - minValue

(***************************************************************************)
(* Width at half prominence                                                *)
(***************************************************************************)
\* v > halfProminenceHeight, halfProminenceHeight =
\* (peakHeight - prominence) + prominence / 2.0f, both sides doubled
AboveHalf(v, peakHeight, prominence) ==
    2 * v > 2 * (peakHeight - prominence) + prominence

\* variant of the left walk: one step, taken without the leftIndex > 0 test
WalkLeft_NoFloor(a, leftIndex, peakHeight, prominence) ==
    IF AboveHalf(At(a, leftIndex), peakHeight, prominence)
    THEN leftIndex - 1
    ELSE leftIndex

RECURSIVE WalkLeft(_, _, _, _)
\* while (leftIndex > 0 && a[leftIndex] > half) leftIndex--;
WalkLeft(a, leftIndex, peakHeight, prominence) ==
    IF leftIndex > 0 /\ AboveHalf(At(a, leftIndex), peakHeight, prominence)
    THEN WalkLeft(a, leftIndex - 1, peakHeight, prominence)
    ELSE leftIndex

RECURSIVE WalkRight(_, _, _, _, _)
\* while (rightIndex < size - 1 && a[rightIndex] > half) rightIndex++;
WalkRight(a, size, rightIndex, peakHeight, prominence) ==
    IF rightIndex < size - 1 /\ AboveHalf(At(a, rightIndex), peakHeight, prominence)
    THEN WalkRight(a, size, rightIndex + 1, peakHeight, prominence)
    ELSE rightIndex

calculateFWHM(a, size, peakIndex, prominence) ==
    LET peakHeight == At(a, peakIndex)
        leftIndex  == WalkLeft(a, peakIndex, peakHeight, prominence)
        rightIndex == WalkRight(a, size, peakIndex, peakHeight, prominence)
    IN  [leftIndex |-> leftIndex, rightIndex |-> rightIndex,
         fwhm |-> Abs(rightIndex - leftIndex)]

(***************************************************************************)
(* Tail-climb detector                                                     *)
(***************************************************************************)
RECURSIVE ClimbFrom(_, _, _, _)
ClimbFrom(b, sizeB, i, failCount) ==
    IF i >= sizeB - 1 THEN failCount < 2
    ELSE IF At(b, i + 1) - At(b, i) <= NOISE_TOLERANCE
         THEN IF failCount + 1 >= 2 THEN FALSE
              ELSE ClimbFrom(b, sizeB, i + 1, failCount + 1)
    ELSE ClimbFrom(b, sizeB, i + 1, failCount)

\* variant of the detector: the first step at or below the tolerance ends it
isPeakClimbing_NoTolerance(b, sizeB, peakIndex) ==
    IF peakIndex <= 0 \/ peakIndex >= sizeB - 1 THEN FALSE
    ELSE ClimbFrom(b, sizeB, peakIndex, 1)

isPeakClimbing(b, sizeB, peakIndex) ==
    IF peakIndex <= 0 \/ peakIndex >= sizeB - 1 THEN FALSE
    ELSE ClimbFrom(b, sizeB, peakIndex, 0)

(***************************************************************************)
(* Dual buffer: joint maximum scan and locator                             *)
(***************************************************************************)
RECURSIVE ScanA(_, _, _, _, _)
\* for (i = l1; i <= r1; i++) { if (shouldBeIgnored(i, ...)) continue; ... }
ScanA(a, i, r1, m, ign) ==
    IF i > r1 THEN m
    ELSE IF i = r1
         THEN IF shouldBeIgnored(i, ign) THEN m
              ELSE IF At(a, i) > m.max_val
                   THEN [max_val |-> At(a, i), max_index |-> i, arrayIndex |-> 1]
              ELSE m
    ELSE Only({Only({ScanA(a, mid + 1, r1, first, ign) :
                         first \in {ScanA(a, i, mid, m, ign)}}) :
                   mid \in {(i + r1) \div 2}})

\* the logical index the scan of b looks up in the exclusion set for local i
IgnoreKeyB(i, r1) == i + r1

RECURSIVE ScanB(_, _, _, _, _, _)
\* for (i = l2; i <= r2; i++) { if (shouldBeIgnored(i + r1, ...)) continue; ... }
ScanB(b, i, r2, r1, m, ign) ==
    IF i > r2 THEN m
    ELSE IF i = r2
         THEN IF shouldBeIgnored(IgnoreKeyB(i, r1), ign) THEN m
              ELSE IF At(b, i) > m.max_val
                   THEN [max_val |-> At(b, i), max_index |-> i, arrayIndex |-> 2]
              ELSE m
    ELSE Only({Only({ScanB(b, mid + 1, r2, r1, first, ign) :
                         first \in {ScanB(b, i, mid, r1, m, ign)}}) :
                   mid \in {(i + r2) \div 2}})

\* max_val = 0.0f; max_row_index = 0; *arrayIndex = 0; *max_index is uint16_t
maxrowCombined(a, l1, r1, b, l2, r2, ign) ==
    LET m0 == [max_val |-> 0, max_index |-> 0, arrayIndex |-> 0]
        m  == ScanB(b, l2, r2, r1, ScanA(a, l1, r1, m0, ign), ign)
    IN  [m EXCEPT !.max_index = U16(@)]

\* pk, tag: what *peakIndex and *arrayIndex hold on entry
RECURSIVE findPeakrec(_, _, _, _, _, _, _, _, _)
findPeakrec(a, l1, r1, b, l2, r2, pk, tag, ign) ==
    IF l1 > r1 /\ l2 > r2
    THEN [value |-> NoPeak, peakIndex |-> pk, arrayIndex |-> tag, calls |-> 1]
    ELSE LET m              == maxrowCombined(a, l1, r1, b, l2, r2, ign)
             mid_combined_a == l1 + CDiv2(r1 - l1)
             mid_combined_b == l2 + CDiv2(r2 - l2)
         IN  IF /\ m.arrayIndex = 1
                /\ mid_combined_a > l1
                /\ m.max_val < At(a, mid_combined_a - 1)
             THEN Deeper(findPeakrec(a, l1, mid_combined_a - 1, b, l2, r2,
                                     m.max_index, m.arrayIndex, ign))
             ELSE IF /\ m.arrayIndex = 2
                     /\ mid_combined_b > l2
                     /\ m.max_val < At(b, mid_combined_b - 1)
             THEN Deeper(findPeakrec(a, l1, r1, b, l2, mid_combined_b - 1,
                                     m.max_index, m.arrayIndex, ign))
             ELSE [value |-> m.max_val, peakIndex |-> m.max_index,
                   arrayIndex |-> m.arrayIndex, calls |-> 1]

\* variant of the shift: the local index as it is
LogicalIndex_Local(arrayIndex, index, size1) == U16(index)

\* peakIndex = (arrayIndex == 1) ? peakIndex : peakIndex + size1;
LogicalIndex(arrayIndex, index, size1) ==
    IF arrayIndex = 1 THEN U16(index) ELSE U16(index + size1)

(***************************************************************************)
(* Dual buffer: prominence                                                 *)
(***************************************************************************)
\* (i < totalSizeA) ? a[i] : b[i - totalSizeA]
Bridged(a, b, totalSizeA, i, junk) ==
    IF i < totalSizeA THEN Rd(a, i, junk) ELSE Rd(b, i - totalSizeA, junk)

RECURSIVE LeftMin(_, _, _, _, _, _, _)
\* for (i = peakIndex - 1; i >= 0; --i) if (currentValue < leftMin) leftMin = currentValue;
\* here for i = hi down to lo
LeftMin(a, b, totalSizeA, lo, hi, leftMin, junk) ==
    IF lo > hi THEN leftMin
    ELSE IF lo = hi
         THEN Only({IF currentValue < leftMin THEN currentValue ELSE leftMin :
                        currentValue \in {Bridged(a, b, totalSizeA, lo, junk)}})
    ELSE Only({Only({LeftMin(a, b, totalSizeA, lo, mid, first, junk) :
                         first \in {LeftMin(a, b, totalSizeA, mid + 1, hi, leftMin, junk)}}) :
                   mid \in {(lo + hi) \div 2}})

RECURSIVE RightMin(_, _, _, _, _, _, _)
\* for (i = peakIndex + 1; i < totalSizeA + totalSizeB; ++i) ...
\* here for i = lo up to hi
RightMin(a, b, totalSizeA, lo, hi, rightMin, junk) ==
    IF lo > hi THEN rightMin
    ELSE IF lo = hi
         THEN Only({IF currentValue < rightMin THEN currentValue ELSE rightMin :
                        currentValue \in {Bridged(a, b, totalSizeA, lo, junk)}})
    ELSE Only({Only({RightMin(a, b, totalSizeA, mid + 1, hi, first, junk) :
                         first \in {RightMin(a, b, totalSizeA, lo, mid, rightMin, junk)}}) :
                   mid \in {(lo + hi) \div 2}})

calculateProminenceForCombinedArrays(a, b, totalSizeA, totalSizeB, arrayIndex, peakIndex, junk) ==
    IF arrayIndex \notin {1, 2} THEN InvalidProminence
    ELSE LET pIdx      == IF arrayIndex = 1 THEN peakIndex ELSE peakIndex - totalSizeA
             peakValue == IF arrayIndex = 1 THEN Rd(a, pIdx, junk) ELSE Rd(b, pIdx, junk)
             leftMin   == LeftMin(a, b, totalSizeA, 0, pIdx - 1, peakValue, junk)
             rightMin  == RightMin(a, b, totalSizeA, pIdx + 1,
                                   totalSizeA + totalSizeB - 1, peakValue, junk)
         IN  peakValue - Min2(leftMin, rightMin)

(***************************************************************************)
(* Dual buffer: width at half prominence                                   *)
(***************************************************************************)
\* The left walk of a peak in b reads b[leftIndex - totalSizeA] also for
\* leftIndex < totalSizeA, below b[0].  What those cells hold is not fixed by
\* the program; the walk only asks whether each exceeds the half height, so
\* the memory below b is given as oobRun, the number of cells directly below
\* b[0] that do.
LeftSampleAbove(a, b, totalSizeA, arrayIndex, leftIndex, peakHeight, prominence, oobRun) ==
    IF arrayIndex = 1 /\ leftIndex < totalSizeA
    THEN AboveHalf(At(a, leftIndex), peakHeight, prominence)
    ELSE IF InBounds(b, leftIndex - totalSizeA)
         THEN AboveHalf(At(b, leftIndex - totalSizeA), peakHeight, prominence)
    ELSE totalSizeA - leftIndex <= oobRun

RECURSIVE WalkLeftCombined(_, _, _, _, _, _, _, _)
WalkLeftCombined(a, b, totalSizeA, arrayIndex, leftIndex, peakHeight, prominence, oobRun) ==
    IF /\ leftIndex > 0
       /\ LeftSampleAbove(a, b, totalSizeA, arrayIndex, leftIndex,
                          peakHeight, prominence, oobRun)
    THEN WalkLeftCombined(a, b, totalSizeA, arrayIndex, leftIndex - 1,
                          peakHeight, prominence, oobRun)
    ELSE leftIndex

RECURSIVE WalkRightCombined(_, _, _, _, _, _, _)
WalkRightCombined(a, b, totalSizeA, totalSizeB, rightIndex, peakHeight, prominence) ==
    IF /\ rightIndex < totalSizeA + totalSizeB - 1
       /\ AboveHalf(IF rightIndex < totalSizeA THEN At(a, rightIndex)
                    ELSE At(b, rightIndex - totalSizeA), peakHeight, prominence)
    THEN WalkRightCombined(a, b, totalSizeA, totalSizeB, rightIndex + 1,
                           peakHeight, prominence)
    ELSE rightIndex

calculateFWHMForCombinedArrays(a, b, totalSizeA, totalSizeB, arrayIndex, peakIndex, prominence, oobRun) ==
    LET peakHeight == IF arrayIndex = 1 THEN At(a, peakIndex)
                      ELSE At(b, peakIndex - totalSizeA)
        leftIndex  == WalkLeftCombined(a, b, totalSizeA, arrayIndex, peakIndex,
                                       peakHeight, prominence, oobRun)
        rightIndex == WalkRightCombined(a, b, totalSizeA, totalSizeB, peakIndex,
                                        peakHeight, prominence)
    IN  [leftIndex |-> leftIndex, rightIndex |-> rightIndex,
         fwhm |-> Abs(rightIndex - leftIndex)]

(***************************************************************************)
(* State                                                                   *)
(***************************************************************************)
VARIABLES
    mode,           \* "single": processPeak, "dual": processOverlapPeak
    a,              \* a[] / rawData1[]
    b,              \* rawData2[] (empty in single mode)
    l,              \* int l: first index of the window handed to findPeakRec
    r,              \* int r: last index of that window
    pc,             \* position in the do-while body, "done" after return
    ignoreIndices,  \* skippedIndices[0..skippedCount-1] / ignoredIndices[0..numIgnored-1]
    retry,          \* retry / peakUpdateAttempts
    peakValue,      \* float peakValue
    peakIndex,      \* *peakIndex (single), local uint16_t peakIndex (dual)
    arrayIndex,     \* int arrayIndex (dual)
    found,          \* index the locator wrote in this trial, before line 318 shifts it
    calls,          \* invocations of the recursive locator in the last run
    prominence,     \* float prominence
    fwhm,           \* int fwhm
    leftIndex,      \* leftIndex of the last width walk
    rightIndex,     \* rightIndex of the last width walk
    isEdgeCase,     \* *isEdgeCase
    peakPoint,      \* *peakPoint (dual)
    accepted,       \* the return value, meaningful once pc = "done"
    outcome,        \* which return statement ended the call
    locRuns         \* locator runs of this call

vars == <<mode, a, b, l, r, pc, ignoreIndices, retry, peakValue, peakIndex, arrayIndex,
          found, calls, prominence, fwhm, leftIndex, rightIndex, isEdgeCase,
          peakPoint, accepted, outcome, locRuns>>

inputs == <<mode, a, b, l, r>>

size  == Len(a)
size1 == Len(a)
size2 == Len(b)

(***************************************************************************)
(* Inputs                                                                  *)
(***************************************************************************)
\* longest shape of a processPeak input, before one of its samples is repeated
MaxLen == 4

\* longest shape of rawData1 followed by rawData2, before the repetition
MaxLenDual == 4

\* sample values: 0, exactly the prominence floor, and clearly above it
Vals == {0, PROMINENCE_FLOOR, PROMINENCE_FLOOR + 22 * Unit}

\* what an out-of-bounds read may yield
OobVals == Vals \cup {-(22 * Unit), 2 * (PROMINENCE_FLOOR + 22 * Unit)}

\* plateau lengths: one on the width floor, one longer than the tail window
RunLengths == {FWHM_FLOOR, PEAK_THRESHOLD + 1}

SeqsUpTo(S, n) == UNION {[1..k -> S] : k \in 0..n}

\* s with its k-th sample repeated w times
Stretch(s, k, w) ==
    SubSeq(s, 1, k - 1) \o [i \in 1..w |-> s[k]] \o SubSeq(s, k + 1, Len(s))

\* s itself and every s with one sample stretched to a plateau of a length in R
StretchedBy(s, R) == {s} \cup {Stretch(s, k, w) : k \in 1..Len(s), w \in R}

Stretched(s) == StretchedBy(s, RunLengths)

\* local state of a call before its first trial (wrappers clear the outputs)
Locals ==
    /\ retry = 0
    /\ peakValue = 0
    /\ arrayIndex = -1
    /\ found = 0
    /\ calls = 0
    /\ fwhm = 0
    /\ leftIndex = 0
    /\ rightIndex = 0
    /\ isEdgeCase = FALSE
    /\ peakPoint = 0
    /\ accepted = FALSE
    /\ outcome = "running"
    /\ locRuns = 0

\* the window every caller in the sources passes: 0, size - 1
FullWindow == l = 0 /\ r = Len(a) - 1

Entry ==
    /\ FullWindow
    /\ ignoreIndices = <<>>
    /\ peakIndex = 0
    /\ prominence = 0
    /\ Locals

InitSingle ==
    /\ mode = "single"
    /\ \E s \in SeqsUpTo(Vals, MaxLen) : a \in Stretched(s)
    /\ b = <<>>

InitDual ==
    /\ mode = "dual"
    /\ \E s \in SeqsUpTo(Vals, MaxLenDual) : \E k \in 0..Len(s) :
          \/ a \in StretchedBy(SubSeq(s, 1, k), {FWHM_FLOOR}) /\ b = SubSeq(s, k + 1, Len(s))
          \/ a = SubSeq(s, 1, k) /\ b \in Stretched(SubSeq(s, k + 1, Len(s)))

Init ==
    /\ InitSingle \/ InitDual
    /\ pc = "search"
    /\ Entry

(***************************************************************************)
(* processPeak                                                             *)
(***************************************************************************)
\* return false / return true
Return(value, why) ==
    /\ pc' = "done"
    /\ accepted' = value
    /\ outcome' = why

\* variant of the low-prominence branch: go round the loop instead of leaving
LowProminenceExit_Retry == pc' = "search" /\ UNCHANGED <<accepted, outcome>>

\* variant of the low-prominence branch: the call accepts
LowProminenceExit_Accept == Return(TRUE, "Accepted")

\* else { printf("Prominence < 18.0.\n"); break; } ... return false;
\* else { printf("Prominence < 14.0. Not accepting peak.\n"); return false; }
LowProminenceExit == Return(FALSE, "LowProminence")

\* variant of the prominence test: twice the floor
ProminenceOk_Doubled(p) == p > 2 * PROMINENCE_FLOOR

\* if (prominence > 18.0f)
ProminenceOk(p) == p > PROMINENCE_FLOOR

\* variant of the width test: a width at the floor passes
WidthOk_AtFloor(w) == w >= FWHM_FLOOR

\* if (fwhm > 15)
WidthOk(w) == w > FWHM_FLOOR

\* variant of the loop test: one trial more than the budget
LoopAgain_OneMore(n) == n <= MAX_ATTEMPTS

\* while (retry < maxAttempts)
LoopAgain(n) == n < MAX_ATTEMPTS

\* if (*peakIndex >= size - PEAK_THRESHOLD)
NearEnd(idx, n) == idx >= n - PEAK_THRESHOLD

\* peakValue = findPeakRec(a, size, 0, size - 1, peakIndex, skippedIndices, skippedCount);
\* if (peakValue == -1) return false;
PeakSearch ==
    /\ mode = "single" /\ pc = "search"
    /\ \E f \in {findPeakRec(a, size, 0, size - 1, peakIndex, ignoreIndices)} :
           /\ peakValue' = f.value
           /\ peakIndex' = f.peakIndex
           /\ found' = f.peakIndex
           /\ calls' = f.calls
           /\ locRuns' = locRuns + 1
           /\ IF f.value = NoPeak
              THEN Return(FALSE, "NoPeakFound")
              ELSE pc' = "prominence" /\ UNCHANGED <<accepted, outcome>>
    /\ UNCHANGED <<inputs, ignoreIndices, retry, arrayIndex, prominence, fwhm,
                   leftIndex, rightIndex, isEdgeCase, peakPoint>>

\* float prominence = findProminence(a, size - 1, *peakIndex);
\* if (prominence > 18.0f) ... else break;
PeakProminence ==
    /\ mode = "single" /\ pc = "prominence"
    /\ \E junk \in OobVals :
         \E p \in {findProminence(a, size - 1, peakIndex, junk)} :
             /\ prominence' = p
             /\ IF ProminenceOk(p)
                THEN pc' = "width" /\ UNCHANGED <<accepted, outcome>>
                ELSE LowProminenceExit
    /\ UNCHANGED <<inputs, ignoreIndices, retry, peakValue, peakIndex, arrayIndex,
                   found, calls, fwhm, leftIndex, rightIndex, isEdgeCase,
                   peakPoint, locRuns>>

\* fwhm = calculateFWHM(...); edge case; if (fwhm > 15) return true;
\* else skip the index; retry++; while (retry < maxAttempts); return false;
PeakWidth ==
    /\ mode = "single" /\ pc = "width"
    /\ \E w \in {calculateFWHM(a, size, peakIndex, prominence)} :
           /\ fwhm' = w.fwhm
           /\ leftIndex' = w.leftIndex
           /\ rightIndex' = w.rightIndex
           /\ isEdgeCase' = IF NearEnd(peakIndex, size)
                            THEN isPeakClimbing(a, size, peakIndex)
                            ELSE isEdgeCase
           /\ IF WidthOk(w.fwhm)
              THEN /\ Return(TRUE, "Accepted")
                   /\ UNCHANGED <<ignoreIndices, retry>>
              ELSE /\ ignoreIndices' = AppendIgnored(ignoreIndices, peakIndex)
                   /\ retry' = retry + 1
                   /\ IF LoopAgain(retry + 1)
                      THEN pc' = "search" /\ UNCHANGED <<accepted, outcome>>
                      ELSE Return(FALSE, "NarrowWidth")
    /\ UNCHANGED <<inputs, peakValue, peakIndex, arrayIndex, found, calls,
                   prominence, peakPoint, locRuns>>

(***************************************************************************)
(* processOverlapPeak (maxUpdateAttempts = MAX_ATTEMPTS)                   *)
(***************************************************************************)
\* peakValue = findPeakrec(rawData1, 0, size1 - 1, rawData2, 0, size2 - 1, ...);
\* peakIndex = (arrayIndex == 1) ? peakIndex : peakIndex + size1;
OverlapSearch ==
    /\ mode = "dual" /\ pc = "search"
    /\ \E f \in {findPeakrec(a, 0, size1 - 1, b, 0, size2 - 1,
                             peakIndex, arrayIndex, ignoreIndices)} :
           /\ peakValue' = f.value
           /\ arrayIndex' = f.arrayIndex
           /\ found' = f.peakIndex
           /\ peakIndex' = LogicalIndex(f.arrayIndex, f.peakIndex, size1)
           /\ calls' = f.calls
    /\ locRuns' = locRuns + 1
    /\ pc' = "prominence"
    /\ UNCHANGED <<inputs, ignoreIndices, retry, prominence, fwhm, leftIndex,
                   rightIndex, isEdgeCase, peakPoint, accepted, outcome>>

\* prominence = calculateProminenceForCombinedArrays(rawData1, rawData2,
\*                  size1 - 1, size2 - 1, arrayIndex, peakIndex);
\* if (prominence > 18.0f) ... else return false;
OverlapProminence ==
    /\ mode = "dual" /\ pc = "prominence"
    /\ \E junk \in OobVals :
         \E p \in {calculateProminenceForCombinedArrays(
                       a, b, size1 - 1, size2 - 1, arrayIndex, peakIndex, junk)} :
             /\ prominence' = p
             /\ IF ProminenceOk(p)
                THEN pc' = "width" /\ UNCHANGED <<accepted, outcome>>
                ELSE LowProminenceExit
    /\ UNCHANGED <<inputs, ignoreIndices, retry, peakValue, peakIndex, arrayIndex,
                   found, calls, fwhm, leftIndex, rightIndex, isEdgeCase,
                   peakPoint, locRuns>>

\* how many cells below b[0] may exceed the half height: only the left walk
\* of a peak in b gets there, and it stops at leftIndex = 0
OobRuns(tag, n) == IF tag = 2 /\ n > 1 THEN 0..(n - 1) ELSE {0}

\* edge case; fwhm = calculateFWHMForCombinedArrays(..., size1, size2, ...);
\* if (fwhm > 15) { *peakPoint = peakIndex; return true; }
\* else ignore the index; peakUpdateAttempts++; return false when exhausted
OverlapWidth ==
    /\ mode = "dual" /\ pc = "width"
    /\ LET localPeakIndex == IF arrayIndex = 2 THEN peakIndex - size1 ELSE peakIndex
       IN  isEdgeCase' = IF arrayIndex = 2 /\ NearEnd(localPeakIndex, size2)
                         THEN isPeakClimbing(b, size2, localPeakIndex)
                         ELSE isEdgeCase
    /\ \E oobRun \in OobRuns(arrayIndex, size1) :
         \E w \in {calculateFWHMForCombinedArrays(a, b, size1, size2, arrayIndex,
                                                  peakIndex, prominence, oobRun)} :
             /\ fwhm' = w.fwhm
             /\ leftIndex' = w.leftIndex
             /\ rightIndex' = w.rightIndex
             /\ IF WidthOk(w.fwhm)
                THEN /\ peakPoint' = peakIndex
                     /\ Return(TRUE, "Accepted")
                     /\ UNCHANGED <<ignoreIndices, retry>>
                ELSE /\ ignoreIndices' = AppendIgnored(ignoreIndices, peakIndex)
                     /\ retry' = retry + 1
                     /\ peakPoint' = peakPoint
                     /\ IF LoopAgain(retry + 1)
                        THEN pc' = "search" /\ UNCHANGED <<accepted, outcome>>
                        ELSE Return(FALSE, "NarrowWidth")
    /\ UNCHANGED <<inputs, peakValue, peakIndex, arrayIndex, found, calls,
                   prominence, locRuns>>

Next ==
    \/ PeakSearch
    \/ PeakProminence
    \/ PeakWidth
    \/ OverlapSearch
    \/ OverlapProminence
    \/ OverlapWidth

Spec == Init /\ [][Next]_vars

\* the call runs to its return: nothing suspends or pre-empts it
FairSpec == Spec /\ WF_vars(Next)

(***************************************************************************)
(* The locators on their own: any buffer, any exclusion set of up to       *)
(* MAX_IGNORED indices, full window                                        *)
(***************************************************************************)
\* longest buffer (single) or rawData1 followed by rawData2 (dual)
LocMaxLen == 4

RECURSIVE SeqOfSet(_)
\* the indices of a set in increasing order
SeqOfSet(S) ==
    IF S = {} THEN <<>>
    ELSE LET x == CHOOSE y \in S : \A z \in S : y <= z
         IN  <<x>> \o SeqOfSet(S \ {x})

\* exclusion sets over the logical indices 0 .. n-1
IgnoreSets(n) == {SeqOfSet(S) : S \in {T \in SUBSET (0..(n - 1)) : Cardinality(T) <= MAX_IGNORED}}

InitLoc ==
    /\ \E s \in SeqsUpTo(Vals, LocMaxLen) :
          /\ \/ mode = "single" /\ a = s /\ b = <<>>
             \/ /\ mode = "dual"
                /\ \E k \in 0..Len(s) : a = SubSeq(s, 1, k) /\ b = SubSeq(s, k + 1, Len(s))
          /\ FullWindow
          /\ \E ign \in IgnoreSets(Len(s)) :
                /\ ignoreIndices = ign
                /\ peakIndex = 0
                /\ prominence = 0
                /\ pc = "locate"
                /\ Locals

\* findPeakRec(a, size, 0, size - 1, &peakIndex, ignoreIndices, numIgnoreIndices)
LocateSingle ==
    /\ mode = "single" /\ pc = "locate"
    /\ \E f \in {findPeakRec(a, size, 0, size - 1, peakIndex, ignoreIndices)} :
           /\ peakValue' = f.value
           /\ peakIndex' = f.peakIndex
           /\ found' = f.peakIndex
           /\ calls' = f.calls
    /\ pc' = "located"
    /\ locRuns' = locRuns + 1
    /\ UNCHANGED <<inputs, ignoreIndices, retry, arrayIndex, prominence, fwhm,
                   leftIndex, rightIndex, isEdgeCase, peakPoint, accepted, outcome>>

\* findPeakrec(a, 0, size1 - 1, b, 0, size2 - 1, &peakIndex, &arrayIndex, ...)
\* and the logical index processOverlapPeak makes of its result
LocateDual ==
    /\ mode = "dual" /\ pc = "locate"
    /\ \E f \in {findPeakrec(a, 0, size1 - 1, b, 0, size2 - 1,
                             peakIndex, arrayIndex, ignoreIndices)} :
           /\ peakValue' = f.value
           /\ arrayIndex' = f.arrayIndex
           /\ found' = f.peakIndex
           /\ peakIndex' = LogicalIndex(f.arrayIndex, f.peakIndex, size1)
           /\ calls' = f.calls
    /\ pc' = "located"
    /\ locRuns' = locRuns + 1
    /\ UNCHANGED <<inputs, ignoreIndices, retry, prominence, fwhm, leftIndex,
                   rightIndex, isEdgeCase, peakPoint, accepted, outcome>>

NextLoc == LocateSingle \/ LocateDual

SpecLoc == InitLoc /\ [][NextLoc]_vars

(***************************************************************************)
(* The width routines on their own: any buffer, any peak index of it, any  *)
(* prominence                                                              *)
(***************************************************************************)
\* longest buffer (single) or rawData1 followed by rawData2 (dual)
FnMaxLen == 4

\* differences of samples, a value whose half is no whole unit, one above every sample
PromVals == {v - w : v, w \in Vals} \cup {Unit + 1, 2 * (PROMINENCE_FLOOR + 22 * Unit)}

InitFn ==
    /\ \E s \in SeqsUpTo(Vals, FnMaxLen) :
          /\ \/ mode = "single" /\ a = s /\ b = <<>>
             \/ /\ mode = "dual"
                /\ \E k \in 0..Len(s) : a = SubSeq(s, 1, k) /\ b = SubSeq(s, k + 1, Len(s))
          /\ peakIndex \in 0..(Len(s) - 1)
    /\ FullWindow
    /\ prominence \in PromVals
    /\ ignoreIndices = <<>>
    /\ pc = "measure"
    /\ Locals

\* the buffer tag of logical index idx
TagOf(idx, n1) == IF idx < n1 THEN 1 ELSE 2

\* calculateFWHM(a, size, peakIndex, prominence)
MeasureSingle ==
    /\ mode = "single" /\ pc = "measure"
    /\ \E w \in {calculateFWHM(a, size, peakIndex, prominence)} :
           /\ fwhm' = w.fwhm
           /\ leftIndex' = w.leftIndex
           /\ rightIndex' = w.rightIndex
    /\ pc' = "measured"
    /\ UNCHANGED <<inputs, ignoreIndices, retry, peakValue, peakIndex, arrayIndex,
                   found, calls, prominence, isEdgeCase, peakPoint, accepted,
                   outcome, locRuns>>

\* calculateFWHMForCombinedArrays(a, b, size1, size2, arrayIndex, peakIndex, prominence)
MeasureDual ==
    /\ mode = "dual" /\ pc = "measure"
    /\ arrayIndex' = TagOf(peakIndex, size1)
    /\ \E oobRun \in OobRuns(TagOf(peakIndex, size1), size1) :
         \E w \in {calculateFWHMForCombinedArrays(a, b, size1, size2,
                                                  TagOf(peakIndex, size1),
                                                  peakIndex, prominence, oobRun)} :
             /\ fwhm' = w.fwhm
             /\ leftIndex' = w.leftIndex
             /\ rightIndex' = w.rightIndex
    /\ pc' = "measured"
    /\ UNCHANGED <<inputs, ignoreIndices, retry, peakValue, peakIndex, found, calls,
                   prominence, isEdgeCase, peakPoint, accepted, outcome, locRuns>>

NextFn == MeasureSingle \/ MeasureDual

SpecFn == InitFn /\ [][NextFn]_vars

(***************************************************************************)
(* The demonstration entry points: main() on the 301-sample reference      *)
(* curve, unsplit (mes_find_peak) and split in two (mes_find_overlap_peak) *)
(***************************************************************************)
\* float dataset[301] = { 10.361000, 10.329520, ... }: each literal as the
\* float the compiler stores, in units of 1/Unit
ReferenceCurve ==
    <<
       10864296, 10831287, 10859474, 10826573, 10978473, 10953316, 10929084, 10975948,
       10846891, 10968010, 10882766, 10924144, 10931153, 10982670, 10939522, 10943582,
       10951926, 10935683, 10971302, 10932116, 10944485, 10988130, 11011854, 11042806,
       11002373, 11028556, 11014680, 11056870, 11056870, 11057459, 11119066, 11017158,
       11017775, 11124914, 11112767, 11051922, 11086352, 11095370, 11210474, 11136568,
       11156579, 11192833, 11179175, 11258520, 11078294, 11207428, 11229896, 11291784,
       11315735, 11250463, 11265162, 11306168, 11275211, 11439640, 11394145, 11362814,
       11403120, 11486434, 11453536, 11455426, 11515772, 11514169, 11493092, 11578067,
       11514046, 11523395, 11662398, 11534628, 11673018, 11802197, 11720746, 11735703,
       11735530, 11862572, 11865803, 11846374, 11888398, 12057752, 11935166, 11975330,
       12135723, 12048765, 12224385, 12211201, 12277240, 12368401, 12322084, 12320814,
       12431607, 12493140, 12593109, 12550979, 12701864, 12812082, 12947924, 12798784,
       13039623, 13095430, 13282875, 13291930, 13554892, 13488413, 13620013, 13891690,
       13830885, 14091955, 14232971, 14348669, 14499019, 14549728, 14729125, 15214485,
       15346303, 15615403, 15628888, 16076378, 16521042, 16617750, 16986264, 17242762,
       17695028, 18131534, 18381956, 18994836, 18939696, 19707954, 20425426, 20762750,
       22106736, 21968730, 23230244, 23709058, 24330932, 25756768, 26575422, 27911078,
       28418620, 29982536, 30562334, 31935512, 33158080, 33974840, 35909032, 37165400,
       38584752, 39842308, 40502728, 41792268, 42634120, 43542412, 44001140, 44192640,
       44021020, 43526748, 43174852, 42199012, 40874092, 39229260, 37764568, 35950604,
       34027104, 31959774, 30324144, 29476750, 28524760, 27063404, 26504062, 24723998,
       23741214, 22649990, 22481092, 21701004, 20641036, 20428490, 19912762, 18862112,
       19139456, 18313890, 17765838, 17249730, 17445900, 16846488, 16522818, 15907897,
       15901805, 15487917, 15442533, 15191785, 14750534, 14666671, 14398744, 14490151,
       14100967, 14123640, 14040027, 13841951, 13733987, 13518425, 13665490, 13366532,
       13425770, 13150154, 13099247, 12962159, 12971809, 12753975, 12857401, 12569746,
       12532673, 12491494, 12408573, 12602572, 12312756, 12399752, 12273991, 12239680,
       12211843, 12286846, 12083595, 12020403, 12086916, 12004227, 12057908, 11913396,
       11921394, 11845323, 11859323, 11909158, 11805548, 11726189, 11771936, 11742535,
       11673210, 11613975, 11624278, 11585441, 11624879, 11548179, 11599821, 11521959,
       11457351, 11495023, 11516823, 11545946, 11431604, 11504131, 11449965, 11382036,
       11386577, 11408690, 11375375, 11352610, 11359032, 11375138, 11384836, 11329376,
       11280933, 11281900, 11286057, 11329302, 11253888, 11262213, 11272351, 11294406,
       11173998, 11268338, 11195600, 11215357, 11160116, 11140916, 11191828, 11189325,
       11170856, 11157035, 11160629, 11159409, 11182679, 11148644, 11084854, 11068205,
       11134919, 11130747, 11140873, 11098678, 11104011, 11129577, 11112357, 11087396,
       11073217, 11081578, 11078040, 11046729, 11050915, 11062146, 11068732, 11059273,
       11061686, 11073541, 11022118, 11040602, 10991675
    >>

\* rawData1[120], rawData2[180] of the dual-buffer main()
RefSizeA == 120

RefSizeB == 180

\* the samples of the reference curve that main() copies: all of them
\* (single), or the first RefSizeA + RefSizeB (dual), or all of them again
RefLengths == {RefSizeA + RefSizeB, Len(ReferenceCurve)}

\* main() of either program; the dual one also with every other split point
InitRef ==
    /\ \/ /\ mode = "single"
          /\ \E n \in RefLengths : a = SubSeq(ReferenceCurve, 1, n)
          /\ b = <<>>
       \/ /\ mode = "dual"
          /\ \E n \in RefLengths : \E k \in 0..n :
                /\ a = SubSeq(ReferenceCurve, 1, k)
                /\ b = SubSeq(ReferenceCurve, k + 1, n)
    /\ pc = "search"
    /\ Entry

SpecRef == InitRef /\ [][Next]_vars

(***************************************************************************)
(* The tail-climb detector on its own: any buffer made of steps below, at  *)
(* and above the noise tolerance, any peak index of it                     *)
(***************************************************************************)
\* longest buffer handed to the detector
ClimbMaxLen == 5

\* first sample of those buffers: 10.0
ClimbBase == 10 * Unit

\* first differences: decreasing, flat, exactly the tolerance, just above it
ClimbSteps == {-Unit, 0, NOISE_TOLERANCE, NOISE_TOLERANCE + 1}

RECURSIVE Rise(_, _)
\* the sum of the first k steps of d
Rise(d, k) == IF k = 0 THEN 0 ELSE Rise(d, k - 1) + d[k]

\* the buffer that starts at ClimbBase and has the first differences d
Ramp(d) == [i \in 1..(Len(d) + 1) |-> ClimbBase + Rise(d, i - 1)]

InitClimb ==
    /\ mode = "single"
    /\ \E d \in SeqsUpTo(ClimbSteps, ClimbMaxLen - 1) :
          /\ a = Ramp(d)
          /\ peakIndex \in 0..Len(d)
    /\ b = <<>>
    /\ FullWindow
    /\ ignoreIndices = <<>>
    /\ prominence = 0
    /\ pc = "climb"
    /\ Locals

\* *isEdgeCase = isPeakClimbing(a, size, *peakIndex);
Climb ==
    /\ pc = "climb"
    /\ isEdgeCase' = isPeakClimbing(a, size, peakIndex)
    /\ pc' = "climbed"
    /\ UNCHANGED <<inputs, ignoreIndices, retry, peakValue, peakIndex, arrayIndex,
                   found, calls, prominence, fwhm, leftIndex, rightIndex, peakPoint,
                   accepted, outcome, locRuns>>

NextClimb == Climb

SpecClimb == InitClimb /\ [][NextClimb]_vars

(***************************************************************************)
(* The single-buffer locator on any window of the buffer, samples below    *)
(* zero included                                                           *)
(***************************************************************************)
\* longest buffer
WinMaxLen == 4

\* sample values: those of the engine's inputs and one below zero
WinVals == Vals \cup {-(22 * Unit)}

InitWin ==
    /\ mode = "single"
    /\ \E s \in SeqsUpTo(WinVals, WinMaxLen) :
          /\ a = s
          /\ l \in 0..(Len(s) - 1)
          /\ r \in 0..(Len(s) - 1)
          /\ ignoreIndices \in IgnoreSets(Len(s))
    /\ b = <<>>
    /\ peakIndex = 0
    /\ prominence = 0
    /\ pc = "locate"
    /\ Locals

\* findPeakRec(a, size, l, r, &peakIndex, ignoreIndices, numIgnoreIndices)
LocateWindow ==
    /\ mode = "single" /\ pc = "locate"
    /\ \E f \in {findPeakRec(a, size, l, r, peakIndex, ignoreIndices)} :
           /\ peakValue' = f.value
           /\ peakIndex' = f.peakIndex
           /\ found' = f.peakIndex
           /\ calls' = f.calls
    /\ pc' = "located"
    /\ locRuns' = locRuns + 1
    /\ UNCHANGED <<inputs, ignoreIndices, retry, arrayIndex, prominence, fwhm,
                   leftIndex, rightIndex, isEdgeCase, peakPoint, accepted, outcome>>

NextWin == LocateWindow

SpecWin == InitWin /\ [][NextWin]_vars

(***************************************************************************)
(* Properties                                                              *)
(***************************************************************************)
\* the bridged view: rawData1 followed by rawData2
Whole == a \o b

\* the smallest sample of the buffer, or of both buffers
GlobalMin == CHOOSE v \in {Whole[i] : i \in 1..Len(Whole)} :
                 \A i \in 1..Len(Whole) : v <= Whole[i]

\* the locator named a sample (dual: the joint scan tagged a buffer)
HasCandidate == mode = "single" \/ arrayIndex \in {1, 2}

\* logical index of the sample the locator named in this trial
CandidateIndex == IF mode = "dual" /\ arrayIndex = 2 THEN found + size1 ELSE found

\* the index the caller gets back
ReportedIndex == IF mode = "single" THEN peakIndex ELSE peakPoint

\* every prominence the code can compute for the current candidate
ProminencesOfCandidate ==
    IF mode = "single"
    THEN {findProminence(a, size - 1, CandidateIndex, junk) : junk \in OobVals}
    ELSE {calculateProminenceForCombinedArrays(a, b, size1 - 1, size2 - 1, arrayIndex,
                                               CandidateIndex, junk) : junk \in OobVals}

\* every width the code can compute for the current candidate and prominence
WidthsOfCandidate ==
    IF mode = "single"
    THEN {calculateFWHM(a, size, CandidateIndex, prominence).fwhm}
    ELSE {calculateFWHMForCombinedArrays(a, b, size1, size2, arrayIndex, CandidateIndex,
                                         prominence, n).fwhm : n \in OobRuns(arrayIndex, size1)}

\* C1: a call returns accepted = true only from a trial whose candidate has a
\* computed prominence above 18.0 and a computed width above 15, and the
\* index it reports is that candidate's logical index (in rawData2: local
\* index + size1).
C1_AcceptedOnlyProminentAndWide ==
    (pc = "done" /\ accepted) =>
        /\ prominence > 18 * Unit
        /\ fwhm > 15
        /\ prominence \in ProminencesOfCandidate
        /\ fwhm \in WidthsOfCandidate
        /\ HasCandidate
        /\ ReportedIndex = CandidateIndex

\* C1 witness: a call accepted a candidate of rawData2 that is not its first sample
C1_Witness ==
    pc = "done" /\ accepted /\ mode = "dual" /\ arrayIndex = 2 /\ found > 0 /\ size1 > 0

C3_TerminatesWithinBudget ==
    /\ [](locRuns <= 3)
    /\ <>(pc = "done")
    /\ [](pc = "done" => (accepted <=> (prominence > 18 * Unit /\ fwhm > 15)))

\* C3 witness: three trials ran and none accepted
C3_Witness ==
    pc = "done" /\ locRuns = 3 /\ ~accepted /\ outcome = "NarrowWidth"

\* every index of the buffer (dual: of the bridged view) is in the exclusion set
AllExcluded == \A i \in 0..(Len(Whole) - 1) : shouldBeIgnored(i, ignoreIndices)

\* every sample (dual: of both buffers) has the same phaseAngle
AllEqual == \A i, j \in 1..Len(Whole) : Whole[i] = Whole[j]

\* C4: single buffer, samples >= 0, more samples than excluded indices: an
\* index processPeak has put in the exclusion set is not returned by a
\* later locator run of the same call.
C4_SingleExcludedNotReturned ==
    (/\ mode = "single"
     /\ pc = "prominence"
     /\ \A i \in 1..Len(a) : a[i] >= 0
     /\ Len(a) > Len(ignoreIndices)) => ~shouldBeIgnored(peakIndex, ignoreIndices)

\* C5: dual buffer: a logical index processOverlapPeak has put in the
\* exclusion set (rawData1: local index, rawData2: local index + size1) is
\* not returned by a later locator run of the same call.
C5_DualExcludedNotReturned ==
    (mode = "dual" /\ pc = "prominence" /\ arrayIndex \in {1, 2}) =>
        ~shouldBeIgnored(peakIndex, ignoreIndices)

\* C6: the single-buffer locator on the full window, with at most 3 excluded
\* indices, returns -1 only for an empty buffer or when every index is
\* excluded.
C6_NoPeakOnlyWhenNothingLeft ==
    (pc = "located" /\ mode = "single" /\ peakValue = NoPeak) =>
        (size = 0 \/ AllExcluded)

\* C7: when every index of a non-empty buffer is excluded, the single-buffer
\* locator returns -1 and no candidate index.
C7_AllExcludedGivesNoPeak ==
    (pc = "located" /\ mode = "single" /\ size > 0 /\ AllExcluded) =>
        peakValue = NoPeak

\* C8: on a buffer of at least one sample, all samples equal, nothing
\* excluded, the locator returns and reports the first or the last index
\* (dual: of rawData1 followed by rawData2) as the peak.
C8_AllEqualReportsBoundary ==
    (pc = "located" /\ Len(Whole) >= 1 /\ AllEqual /\ ignoreIndices = <<>>) =>
        /\ peakValue # NoPeak
        /\ peakIndex \in {0, Len(Whole) - 1}

\* C9: the prominence computed for a candidate is at least 0 and at most the
\* candidate's sample minus the smallest sample of the buffer; stated here
\* for processPeak on buffers of two or more samples, where every read of
\* findProminence stays inside the buffer.
C9_ProminenceWithinRange ==
    [][(mode = "single" /\ pc = "prominence" /\ size >= 2) =>
           /\ prominence' >= 0
           /\ prominence' <= At(a, peakIndex) - GlobalMin]_vars

\* C10: the width is a whole number of samples between 0 and the buffer
\* length (dual: size1 + size2), it is the distance of the two crossing
\* indices, and 0 <= leftIndex <= peakIndex <= rightIndex <= last index.
C10_WidthAndCrossingsInRange ==
    pc = "measured" =>
        /\ fwhm \in 0..Len(Whole)
        /\ fwhm = rightIndex - leftIndex
        /\ 0 <= leftIndex
        /\ leftIndex <= peakIndex
        /\ peakIndex <= rightIndex
        /\ rightIndex <= Len(Whole) - 1

\* C10 witness: the left walk of a peak in rawData2 went on below b[0] and
\* ended inside rawData1
C10_Witness ==
    /\ pc = "measured" /\ mode = "dual" /\ arrayIndex = 2
    /\ leftIndex < size1 /\ leftIndex > 0 /\ rightIndex > peakIndex

\* the call is main()'s call of mes_find_peak on all 301 samples
RefSingleCall == mode = "single" /\ a = ReferenceCurve

\* the call is main()'s call of mes_find_overlap_peak: 120 + 180 samples
RefDualCall == mode = "dual" /\ size1 = RefSizeA /\ size2 = RefSizeB

\* C11 as stated: on the reference curve find_peak returns accepted = true
\* with peakIndex between 140 and 146 and edgeCase = false.
C11_ReferencePeakInLow140s ==
    (RefSingleCall /\ pc = "done") =>
        /\ accepted
        /\ peakIndex \in 140..146
        /\ ~isEdgeCase

\* C11 amended: on the reference curve find_peak returns accepted = true
\* with peakIndex = 151, the index of the largest sample (42.145386), from
\* the first trial, with prominence above 31.8, width 31 and edgeCase = false.
C11_ReferencePeakAt151 ==
    (RefSingleCall /\ pc = "done") =>
        /\ accepted
        /\ peakIndex = 151
        /\ peakValue = At(ReferenceCurve, 151)
        /\ \A i \in 1..Len(ReferenceCurve) : ReferenceCurve[i] <= peakValue
        /\ locRuns = 1
        /\ 10 * prominence > 318 * Unit
        /\ fwhm = 31
        /\ ~isEdgeCase

\* C11 witness: the call on the reference curve has returned
C11_Witness == RefSingleCall /\ pc = "done" /\ outcome = "Accepted"

\* C12: on the reference curve split 120 + 180, find_overlap_peak accepts a
\* peak at the logical index find_peak reports on the unsplit samples, and
\* its prominence and width equal the single-buffer prominence and width
\* (prominence within a thousandth).
C12_SplitMatchesUnsplit ==
    (RefDualCall /\ pc = "done") =>
        LET one == findPeakRec(Whole, Len(Whole), 0, Len(Whole) - 1, 0, <<>>)
            p1  == findProminence(Whole, Len(Whole) - 1, one.peakIndex, 0)
            w1  == calculateFWHM(Whole, Len(Whole), one.peakIndex, p1)
        IN  /\ accepted
            /\ peakPoint = one.peakIndex
            /\ fwhm = w1.fwhm
            /\ 1000 * Abs(prominence - p1) <= Unit

\* the steps i -> i + 1 of the tail: from the peak to the last sample
TailSteps == peakIndex..(size - 2)

\* the steps of the tail that do not exceed the noise tolerance
TailFailures == {i \in TailSteps : At(a, i + 1) - At(a, i) <= NOISE_TOLERANCE}

\* every step of the tail is flat or decreasing
TailNotRising == \A i \in TailSteps : At(a, i + 1) - At(a, i) <= 0

\* C13 as stated: for 0 < peakIndex < size - 1 the detector returns true
\* when every first difference from the peak to the last sample exceeds 0.9,
\* and false whenever every one of them is <= 0, for every tail length,
\* a single step (peakIndex = size - 2) included.
C13_FlatOrFallingTailIsNotClimbing ==
    (pc = "climbed" /\ 0 < peakIndex /\ peakIndex < size - 1) =>
        /\ TailFailures = {} => isEdgeCase
        /\ TailNotRising => ~isEdgeCase

\* C13 amended: for 0 < peakIndex < size - 1 the detector returns true
\* exactly when fewer than two first differences from the peak to the last
\* sample are <= 0.9: true when every one exceeds 0.9, false for a flat or
\* decreasing tail of two or more steps, and true for a tail of a single
\* step (peakIndex = size - 2) whatever that step is.
C13_ClimbingUnlessTwoStepsFail ==
    (pc = "climbed" /\ 0 < peakIndex /\ peakIndex < size - 1) =>
        /\ isEdgeCase <=> Cardinality(TailFailures) < 2
        /\ TailFailures = {} => isEdgeCase
        /\ (TailNotRising /\ peakIndex < size - 2) => ~isEdgeCase
        /\ peakIndex = size - 2 => isEdgeCase

\* C13 witness: the detector ran on a tail of one decreasing step
C13_Witness ==
    /\ pc = "climbed" /\ 0 < peakIndex /\ peakIndex = size - 2
    /\ At(a, size - 1) < At(a, peakIndex)
    /\ isEdgeCase

\* the sample at C index p is not smaller than the neighbours it has in s
LocalMaximum(s, p) ==
    /\ p - 1 >= 0 => At(s, p) >= At(s, p - 1)
    /\ p + 1 <= Len(s) - 1 => At(s, p) >= At(s, p + 1)

\* C14: whenever the single-buffer locator returns a value other than -1,
\* on a buffer of samples >= 0 with up to 3 excluded indices, the sample at
\* the index it reports is a local maximum of the buffer: not smaller than
\* the neighbours it has at p - 1 and p + 1.
C14_AcceptedIsLocalMaximum ==
    (/\ pc = "located" /\ mode = "single"
     /\ peakValue # NoPeak
     /\ \A i \in 1..Len(a) : a[i] >= 0
     /\ Len(ignoreIndices) <= 3) => LocalMaximum(a, peakIndex)

\* the buffer the candidate of this trial lies in
CandidateBuffer == IF mode = "dual" /\ arrayIndex = 2 THEN b ELSE a

\* C15: with edgeCase false on entry, edgeCase is true at return only if the
\* call accepted a candidate whose local index lies within 30 samples of the
\* end of its own buffer and for which the tail-climb detector returned
\* true; a candidate rejected for narrow width in an earlier trial, or a
\* call that ends in rejection, never leaves the flag true.
C15_EdgeFlagOnlyFromAcceptedCandidate ==
    (pc = "done" /\ isEdgeCase) =>
        /\ accepted
        /\ mode = "dual" => arrayIndex = 2
        /\ NearEnd(found, Len(CandidateBuffer))
        /\ isPeakClimbing(CandidateBuffer, Len(CandidateBuffer), found)

\* the indices of the buffer that are not excluded
Kept == {i \in 0..(size - 1) : ~shouldBeIgnored(i, ignoreIndices)}

\* C16: on a buffer with at least one non-excluded sample > 0, for every
\* window [l, r] and every exclusion set, whenever the single-buffer locator
\* returns a value other than -1 the index it reports is the lowest index
\* of the largest sample over all non-excluded indices of the whole buffer,
\* and the value it returns is that sample.
C16_ReportsLowestIndexOfGlobalMaximum ==
    (/\ pc = "located" /\ mode = "single"
     /\ \E i \in Kept : At(a, i) > 0
     /\ peakValue # NoPeak) =>
        /\ peakIndex \in Kept
        /\ \A i \in Kept : At(a, i) <= At(a, peakIndex)
        /\ \A i \in Kept : At(a, i) = At(a, peakIndex) => peakIndex <= i
        /\ peakValue = At(a, peakIndex)

\* C16 witness: the locator recursed into a narrower window and reported an
\* index outside the window it was called with, next to an excluded index
C16_Witness ==
    /\ pc = "located" /\ mode = "single"
    /\ \E i \in Kept : At(a, i) > 0
    /\ peakValue # NoPeak
    /\ calls > 1
    /\ peakIndex > r
    /\ ignoreIndices # <<>>

\* the nearest index left of p with a sample strictly above s[p], else 0
LeftBoundaryOf(s, p) ==
    LET higher == {i \in 0..(p - 1) : At(s, i) > At(s, p)}
    IN  IF higher = {} THEN 0 ELSE CHOOSE i \in higher : \A j \in higher : j <= i

\* the nearest index right of p with a sample strictly above s[p], else the
\* last index of s
RightBoundaryOf(s, p) ==
    LET higher == {i \in (p + 1)..(Len(s) - 1) : At(s, i) > At(s, p)}
    IN  IF higher = {} THEN Len(s) - 1 ELSE CHOOSE i \in higher : \A j \in higher : i <= j

\* s[p] minus the smallest sample between the two boundaries of p
ProminenceBetweenBoundaries(s, p) ==
    LET within == {At(s, i) : i \in LeftBoundaryOf(s, p)..RightBoundaryOf(s, p)}
    IN  At(s, p) - (CHOOSE v \in within : \A w \in within : v <= w)

\* C17: the prominence find_peak computes for the candidate at index p of a
\* buffer of length size is a[p] minus the smallest sample between
\* leftBoundary and rightBoundary, the nearest strictly higher samples left
\* and right of p (else index 0 and the last index size - 1): the last
\* sample of the buffer takes part in the right scan and in the minimum.
C17_ProminenceUsesWholeBuffer ==
    [][(mode = "single" /\ pc = "prominence") =>
           prominence' = ProminenceBetweenBoundaries(a, peakIndex)]_vars

\* C18: the prominence find_overlap_peak computes for the candidate at
\* logical index p is the sample at p minus the smallest sample of the whole
\* bridged view [0, size1 + size2) (leftMin over [0, p), rightMin over
\* (p, size1 + size2), rawData1[i] for i < size1 and rawData2[i - size1]
\* otherwise).
C18_DualProminenceOverBridgedView ==
    [][(mode = "dual" /\ pc = "prominence" /\ arrayIndex \in {1, 2}) =>
           prominence' = At(Whole, peakIndex) - GlobalMin]_vars

\* C19: for every rawData1, rawData2, logical peak index p and prominence,
\* the dual-buffer width equals the single-buffer width of rawData1
\* followed by rawData2 for the same p and prominence: the left walk of a
\* peak in rawData2 goes on through the samples of rawData1.
C19_DualWidthEqualsSingleWidth ==
    (pc = "measured" /\ mode = "dual") =>
        fwhm = calculateFWHM(Whole, Len(Whole), peakIndex, prominence).fwhm

\* C20: for every buffer with at least one sample > 0 and every split of it
\* into rawData1 and rawData2, with an empty exclusion set the logical index
\* of the dual-buffer locator (tag 1: local index, tag 2: local index +
\* size1) equals the index the single-buffer locator reports on the unsplit
\* buffer, and the two returned values are equal.
C20_DualLocatorMatchesSingle ==
    (/\ pc = "located" /\ mode = "dual"
     /\ ignoreIndices = <<>>
     /\ \E i \in 1..Len(Whole) : Whole[i] > 0) =>
        LET one == findPeakRec(Whole, Len(Whole), 0, Len(Whole) - 1, 0, <<>>)
        IN  /\ arrayIndex \in {1, 2}
            /\ peakIndex = IF arrayIndex = 1 THEN found ELSE found + size1
            /\ peakIndex = one.peakIndex
            /\ peakValue = one.value
            /\ peakValue = At(Whole, peakIndex)

\* C20 witness: the largest sample lies in rawData2 behind its first sample,
\* rawData1 is not empty and holds a sample > 0 of its own
C20_Witness ==
    /\ pc = "located" /\ mode = "dual" /\ ignoreIndices = <<>>
    /\ arrayIndex = 2 /\ found > 0 /\ size1 > 0
    /\ \E i \in 1..size1 : a[i] > 0
    /\ peakIndex = found + size1

\* the dual-buffer locator named no sample: both buffers empty (the tag is
\* still the -1 of the declaration) or nothing above 0 is left (tag 0)
NoCandidate == mode = "dual" /\ arrayIndex \notin {1, 2}

\* C21: whenever the dual-buffer locator produces no candidate (both buffers
\* empty, or no non-excluded sample > 0 in either window so that the buffer
\* tag stays "none"), find_overlap_peak returns accepted = false at once and
\* does not write the caller's peak index.
C21_NoCandidateRejects ==
    [][(NoCandidate /\ pc = "prominence") =>
           /\ pc' = "done"
           /\ accepted' = FALSE
           /\ peakPoint' = peakPoint
           /\ locRuns' = locRuns]_vars

\* C21 witness: a later trial of a call on two non-empty buffers found
\* nothing above 0 outside the exclusion set, and the call returned
C21_Witness ==
    /\ NoCandidate /\ pc = "done"
    /\ arrayIndex = 0 /\ size1 > 0 /\ size2 > 0
    /\ locRuns > 1
    /\ ~accepted /\ peakPoint = 0

\* C22: in every reachable state of find_peak and find_overlap_peak the
\* size of the exclusion set equals the number of trials that ended in a
\* narrow-width retry and is <= 3, and at most 2 indices are in the set
\* while a trial runs (locator, prominence, width): an append never meets a
\* full set, so the drop-on-overflow branch is never taken.
C22_ExclusionSetCountsRetries ==
    /\ Len(ignoreIndices) = retry
    /\ Len(ignoreIndices) <= 3
    /\ pc # "done" => Len(ignoreIndices) <= 2
    /\ locRuns <= Len(ignoreIndices) + 1

\* C22 witness: the third trial ended in a narrow-width retry, the set is
\* full at the return
C22_Witness ==
    /\ pc = "done" /\ outcome = "NarrowWidth"
    /\ retry = 3 /\ Len(ignoreIndices) = 3 /\ locRuns = 3

\* the indices at which maxrow reads a sample: every index of the buffer
\* that is not excluded
maxrowReads(n, ign) == {i \in 0..(n - 1) : ~shouldBeIgnored(i, ign)}

RECURSIVE findPeakRecReads(_, _, _, _, _)
\* the indices at which findPeakRec(s, n, lo, hi, ...) reads a sample: the
\* scan of every level, a[mid - 1], and a[mid + 1] when the first test fails
findPeakRecReads(s, n, lo, hi, ign) ==
    IF lo > hi THEN {}
    ELSE LET mid == CDiv2(lo + hi)
             m   == maxrow(s, n, ign)
         IN  IF mid = 0 \/ mid = n - 1 THEN maxrowReads(n, ign)
             ELSE IF m.max_val < Rd(s, mid - 1, 0)
                  THEN maxrowReads(n, ign) \cup {mid - 1}
                           \cup findPeakRecReads(s, n, lo, mid - 1, ign)
             ELSE IF m.max_val < Rd(s, mid + 1, 0)
                  THEN maxrowReads(n, ign) \cup {mid - 1, mid + 1}
                           \cup findPeakRecReads(s, n, mid + 1, hi, ign)
             ELSE maxrowReads(n, ign) \cup {mid - 1, mid + 1}

\* the indices at which findProminence(s, n, p) reads a sample: a[p], the
\* two scans up to the boundary they stop at, a[rightBoundary], and the
\* minimum loop from leftBoundary to rightBoundary
findProminenceReads(s, n, p) ==
    LET leftBoundary  == ScanLeftHigher(s, p - 1, At(s, p))
        rightBoundary == ScanRightHigher(s, n, p + 1, At(s, p))
    IN  {p} \cup (leftBoundary..(p - 1)) \cup ((p + 1)..rightBoundary)
            \cup {rightBoundary} \cup (leftBoundary..rightBoundary)

\* the indices at which calculateFWHM(s, n, p, prom) reads a sample: a[p],
\* a[leftIndex] while leftIndex > 0, a[rightIndex] while rightIndex < n - 1
calculateFWHMReads(s, n, p, prom) ==
    LET w == calculateFWHM(s, n, p, prom)
    IN  {p} \cup {i \in w.leftIndex..p : i > 0}
            \cup {i \in p..w.rightIndex : i < n - 1}

RECURSIVE ClimbReads(_, _, _, _)
\* the indices at which the loop of isPeakClimbing reads: b[i] and b[i + 1]
\* of every step it takes
ClimbReads(s, n, i, failCount) ==
    IF i >= n - 1 THEN {}
    ELSE {i, i + 1} \cup
         (IF Rd(s, i + 1, 0) - Rd(s, i, 0) <= NOISE_TOLERANCE
          THEN IF failCount + 1 >= 2 THEN {}
               ELSE ClimbReads(s, n, i + 1, failCount + 1)
          ELSE ClimbReads(s, n, i + 1, failCount))

\* the indices at which isPeakClimbing(s, n, p) reads a sample
isPeakClimbingReads(s, n, p) ==
    IF p <= 0 \/ p >= n - 1 THEN {} ELSE ClimbReads(s, n, p, 0)

\* the indices of a[] that the step processPeak is about to take reads
ReadsOfPeakStep ==
    IF pc = "search" THEN findPeakRecReads(a, size, 0, size - 1, ignoreIndices)
    ELSE IF pc = "prominence" THEN findProminenceReads(a, size - 1, peakIndex)
    ELSE IF pc = "width"
         THEN calculateFWHMReads(a, size, peakIndex, prominence) \cup
              (IF NearEnd(peakIndex, size)
               THEN isPeakClimbingReads(a, size, peakIndex) ELSE {})
    ELSE {}

\* C23: for every buffer of size >= 1 and every sequence of trials, every
\* sample find_peak reads (max scan, neighbour test at mid - 1 and mid + 1,
\* prominence scan, width walk, tail-climb walk) is read at an index i with
\* 0 <= i < size.
C23_SingleReadsInsideBuffer ==
    (mode = "single" /\ size >= 1) => ReadsOfPeakStep \subseteq 0..(size - 1)

\* a read of the dual-buffer code is a cell: <<1, i>> is a[i], <<2, i>> is
\* b[i]; the cell the bridging test (i < totalSizeA) ? a[i] : b[i - totalSizeA] reads
BridgedCell(totalSizeA, i) == IF i < totalSizeA THEN <<1, i>> ELSE <<2, i - totalSizeA>>

\* the cells the two loops of maxrowCombined read: every index of either
\* window whose key is not in the exclusion set
maxrowCombinedReads(l1, r1, l2, r2, ign) ==
    {<<1, i>> : i \in {j \in l1..r1 : ~shouldBeIgnored(j, ign)}} \cup
    {<<2, i>> : i \in {j \in l2..r2 : ~shouldBeIgnored(IgnoreKeyB(j, r1), ign)}}

RECURSIVE findPeakrecReads(_, _, _, _, _, _, _)
\* the cells findPeakrec reads: the joint scan of every level and the
\* neighbour a[mid_combined_a - 1] or b[mid_combined_b - 1] it tests
findPeakrecReads(s, l1, r1, t, l2, r2, ign) ==
    IF l1 > r1 /\ l2 > r2 THEN {}
    ELSE LET m              == maxrowCombined(s, l1, r1, t, l2, r2, ign)
             mid_combined_a == l1 + CDiv2(r1 - l1)
             mid_combined_b == l2 + CDiv2(r2 - l2)
             scan           == maxrowCombinedReads(l1, r1, l2, r2, ign)
             testA          == IF m.arrayIndex = 1 /\ mid_combined_a > l1
                               THEN {<<1, mid_combined_a - 1>>} ELSE {}
             testB          == IF m.arrayIndex = 2 /\ mid_combined_b > l2
                               THEN {<<2, mid_combined_b - 1>>} ELSE {}
         IN  IF /\ m.arrayIndex = 1
                /\ mid_combined_a > l1
                /\ m.max_val < Rd(s, mid_combined_a - 1, 0)
             THEN scan \cup testA \cup
                  findPeakrecReads(s, l1, mid_combined_a - 1, t, l2, r2, ign)
             ELSE IF /\ m.arrayIndex = 2
                     /\ mid_combined_b > l2
                     /\ m.max_val < Rd(t, mid_combined_b - 1, 0)
             THEN scan \cup testA \cup testB \cup
                  findPeakrecReads(s, l1, r1, t, l2, mid_combined_b - 1, ign)
             ELSE scan \cup testA \cup testB

\* the cells calculateProminenceForCombinedArrays reads: the peak cell, the
\* left loop from peakIndex - 1 down to 0 and the right loop up to
\* totalSizeA + totalSizeB - 1, peakIndex being the local index for tag 2
calculateProminenceReads(totalSizeA, totalSizeB, tag, p) ==
    IF tag \notin {1, 2} THEN {}
    ELSE LET pIdx == IF tag = 1 THEN p ELSE p - totalSizeA
         IN  {<<tag, pIdx>>}
                 \cup {BridgedCell(totalSizeA, i) : i \in 0..(pIdx - 1)}
                 \cup {BridgedCell(totalSizeA, i) :
                           i \in (pIdx + 1)..(totalSizeA + totalSizeB - 1)}

\* the cell the left walk reads when its leftIndex is idx
LeftWalkCell(totalSizeA, tag, idx) ==
    IF tag = 1 /\ idx < totalSizeA THEN <<1, idx>>
    ELSE <<2, idx - totalSizeA>>

\* the cells calculateFWHMForCombinedArrays reads when oobRun cells below
\* b[0] exceed the half height: the peak cell and the cells of both walks
calculateFWHMCombinedReads(s, t, totalSizeA, totalSizeB, tag, p, prom, oobRun) ==
    LET w == calculateFWHMForCombinedArrays(s, t, totalSizeA, totalSizeB, tag,
                                            p, prom, oobRun)
    IN  {IF tag = 1 THEN <<1, p>> ELSE <<2, p - totalSizeA>>}
            \cup {LeftWalkCell(totalSizeA, tag, i) : i \in {j \in w.leftIndex..p : j > 0}}
            \cup {BridgedCell(totalSizeA, i) :
                      i \in {j \in p..w.rightIndex : j < totalSizeA + totalSizeB - 1}}

\* the cells the step processOverlapPeak is about to take reads
ReadsOfOverlapStep ==
    IF pc = "search"
    THEN findPeakrecReads(a, 0, size1 - 1, b, 0, size2 - 1, ignoreIndices)
    ELSE IF pc = "prominence"
         THEN calculateProminenceReads(size1 - 1, size2 - 1, arrayIndex, peakIndex)
    ELSE IF pc = "width"
         THEN UNION {calculateFWHMCombinedReads(a, b, size1, size2, arrayIndex,
                                                peakIndex, prominence, n) :
                         n \in OobRuns(arrayIndex, size1)}
              \cup (IF arrayIndex = 2 /\ NearEnd(peakIndex - size1, size2)
                    THEN {<<2, i>> : i \in isPeakClimbingReads(b, size2, peakIndex - size1)}
                    ELSE {})
    ELSE {}

\* the cells of the two buffers
CellsOfBuffers ==
    {<<1, i>> : i \in 0..(size1 - 1)} \cup {<<2, i>> : i \in 0..(size2 - 1)}

\* C24: for every pair of buffers with size1 >= 1 and size2 >= 1 and every
\* sequence of trials, every sample find_overlap_peak reads (joint max scan,
\* neighbour test, prominence scan, width walk, tail-climb walk) is read
\* from rawData1 at an index in [0, size1) or from rawData2 at an index in
\* [0, size2), also when the candidate is the last sample of rawData2 and
\* when the left walk from a peak of rawData2 reaches the boundary.
C24_DualReadsInsideBuffers ==
    (mode = "dual" /\ size1 >= 1 /\ size2 >= 1) =>
        ReadsOfOverlapStep \subseteq CellsOfBuffers

=============================================================================
